---- MODULE Spec2Model ----
(***************************************************************************)
(* A model of sewik: the streaming XML parser (xml/parse), the file        *)
(* pipeline and its consumer (cmd/scan), the statistics aggregator         *)
(* (pkg/dom/stats) and the schema printer (xml/print).                     *)
(*                                                                         *)
(* One module, several specifications over the same variables:             *)
(*   SpecParse  parse() run on every bounded raw token stream              *)
(*   SpecPrint  print.Elements run on every bounded aggregate              *)
(*   SpecAdd    several callers merging documents into one aggregate       *)
(*   FairSpecAdd  SpecAdd with every caller scheduled fairly               *)
(*   Spec       the pipeline: workers, output channel, consumer, printer   *)
(*   FairSpec   Spec with every goroutine scheduled fairly                 *)
(*   SpecGet    Add, Get and Len called on one Attributes map              *)
(*   SpecPrintTwice  print.Elements run twice on the same aggregate        *)
(***************************************************************************)
EXTENDS Integers, Sequences, FiniteSets, TLC

\* ------------------------------------------------------------------ bounds
MaxTokens == 4
MaxCount == 2
NumDocs == 3
NumFiles == 3
PipeSize == 0
MaxAdds == 3

\* ------------------------------------------------------------- vocabulary
Names == {"a", "b"}
AttrNames == {"id", "x"}

VARIABLES
  \* --- parser (xml/parse/parser.go)
  input,      \* the raw tokens of the byte stream handed to xml.NewDecoder
  pos,        \* the decoder's read offset: index of the next raw token
  stk,        \* the decoder's stack of open element names (Strict mode)
  t,          \* parse's local t: the current token, NoToken when nil
  err,        \* parse's local err: "nil", "EOF" or "syntax"
  nodes,      \* the heap of xmldom.Node values allocated by parse
  e,          \* parse's local e: index of the current node, 0 when nil
  doc,        \* the xmldom.Document: Root (0 = nil), ProcInst, Directives
  ret,        \* what parse returned: doc ("nil"/"doc") and err
  ppc,        \* parse's position
  \* --- aggregate (pkg/dom/stats): the nested maps, flattened by element path
  Cn,         \* element path -> count; its domain is the entries inserted
  At,         \* element path -> (attribute name -> count): the map a.in
  atCalls,    \* history: element path -> (attribute name -> calls of
              \* Attributes.Add that have returned)
  elMx,       \* the Elements mutexes held: pairs <<path of the map's owner, holder>>
  atMx,       \* the Attributes mutexes held: pairs <<element path, holder>>
  \* --- the goroutines that call Add
  pc,         \* goroutine -> position
  todo,       \* goroutine -> the pending recursive calls Add(node) on the map at
  loc,        \* goroutine -> locals of the Add in progress: entry q, attributes
              \* left to add, and x of Attributes.Add
  files,      \* the corpus: one record per file, kind and element tree
  pending,    \* indices of the files not yet taken
  \* --- file pipeline
  held,       \* worker -> index of the file it holds, 0 when none
  ch,         \* the output channel: the parsed roots sent and not yet received
  closed,     \* whether the output channel is closed
  skipped,    \* indices of the files logged and skipped
  \* --- printer (xml/print/elements.go)
  rootc,      \* the parentCount of the outermost call
  pstack,     \* the call stack of Elements: one frame per active call
  out,        \* what has been printed, one event per element or closing tag
  prev,       \* history: what an earlier run of the printer over the same
              \* aggregate printed
  \* --- a caller of Attributes.Get (pkg/dom/stats/attributes.go)
  got         \* the attributeMap Get returned to it: the map it refers to, its
              \* content when Get returned, whether the caller has written to it

parseVars == <<input, pos, stk, t, err, nodes, e, doc, ret, ppc>>
aggVars == <<Cn, At, atCalls, elMx, atMx>>
callVars == <<pc, todo, loc, files, pending>>
pipeVars == <<held, ch, closed, skipped>>
printVars == <<rootc, pstack, out>>
getVars == <<got>>
histVars == <<prev>>

vars == <<parseVars, aggVars, callVars, pipeVars, printVars, getVars, histVars>>

\* what a step of one component leaves alone
ParseOnly == UNCHANGED <<aggVars, callVars, pipeVars, printVars, getVars, histVars>>
PrintOnly == UNCHANGED <<parseVars, aggVars, callVars, pipeVars, getVars, histVars>>
AddOnly == UNCHANGED <<parseVars, pipeVars, printVars, getVars, histVars>>
PipeOnly == UNCHANGED <<parseVars, aggVars, getVars, histVars>>

\* the goroutines: the pool's workers and the consumer
Workers == {"w1", "w2"}
Main == "main"
Callers == Workers \cup {Main}

\* ======================================================================
\* Parser
\* ======================================================================

NoToken == [type |-> "nil", name |-> "", attr |-> <<>>, data |-> <<>>]

StartElement(n, as) ==
  [type |-> "StartElement", name |-> n, attr |-> as, data |-> <<>>]
EndElement(n) == [type |-> "EndElement", name |-> n, attr |-> <<>>, data |-> <<>>]
CharData(d) == [type |-> "CharData", name |-> "", attr |-> <<>>, data |-> d]
ProcInst(target, inst) ==
  [type |-> "ProcInst", name |-> target, attr |-> <<>>, data |-> inst]
Directive(d) == [type |-> "Directive", name |-> "", attr |-> <<>>, data |-> d]
\* bytes the decoder cannot tokenize: rawToken fails with a SyntaxError
Malformed == [type |-> "Malformed", name |-> "", attr |-> <<>>, data |-> <<>>]

\* The raw tokens an input may hold.
RawTokens ==
  {StartElement("a", <<>>), StartElement("b", <<"id", "id">>),
   EndElement("a"), EndElement("b"),
   CharData(<<" ", "t", " ">>), ProcInst("xml", <<"v">>),
   Directive(<<"D">>), Malformed}

Inputs == UNION {[1..n -> RawTokens] : n \in 0..MaxTokens}

\* bytes.TrimSpace over a sequence of characters
RECURSIVE TrimLeft(_)
TrimLeft(s) == IF s # <<>> /\ Head(s) = " " THEN TrimLeft(Tail(s)) ELSE s
RECURSIVE TrimRight(_)
TrimRight(s) ==
  IF s # <<>> /\ s[Len(s)] = " " THEN TrimRight(SubSeq(s, 1, Len(s) - 1)) ELSE s
TrimSpace(s) == TrimRight(TrimLeft(s))

\* fmt.Sprintf("<?%s %s?>", pi.Target, string(pi.Inst))
stringifyProcInst(tok) == <<"<?", tok.name, " ">> \o tok.data \o <<"?>">>
\* fmt.Sprintf("<!%s>", string(*directive))
stringifyDirective(tok) == <<"<!">> \o tok.data \o <<">">>

\* encoding/xml Decoder.Token in Strict mode (the mode NewDecoder sets and
\* parse leaves alone): start and end elements are delivered properly nested
\* and matched; an unexpected end element, a mismatched end element, or the
\* end of input with elements still open is a SyntaxError; the end of input
\* with nothing open is io.EOF.  Returns the token, the error and the
\* decoder's next state.
StrictToken(inp, p, s) ==
  IF p > Len(inp)
  THEN [t |-> NoToken, err |-> IF s = <<>> THEN "EOF" ELSE "syntax",
        pos |-> p, stk |-> s]
  ELSE LET raw == inp[p] IN
    CASE raw.type = "Malformed" ->
           [t |-> NoToken, err |-> "syntax", pos |-> p, stk |-> s]
      [] raw.type = "StartElement" ->
           [t |-> raw, err |-> "nil", pos |-> p + 1, stk |-> <<raw.name>> \o s]
      [] raw.type = "EndElement" ->
           IF s = <<>> \/ Head(s) # raw.name
           THEN [t |-> NoToken, err |-> "syntax", pos |-> p, stk |-> s]
           ELSE [t |-> raw, err |-> "nil", pos |-> p + 1, stk |-> Tail(s)]
      [] OTHER ->
           [t |-> raw, err |-> "nil", pos |-> p + 1, stk |-> s]

\* A decoder that hands every end element through unchecked.
LaxToken(inp, p, s) ==
  IF p > Len(inp)
  THEN [t |-> NoToken, err |-> "EOF", pos |-> p, stk |-> s]
  ELSE LET raw == inp[p] IN
    CASE raw.type = "Malformed" ->
           [t |-> NoToken, err |-> "syntax", pos |-> p, stk |-> s]
      [] raw.type = "StartElement" ->
           [t |-> raw, err |-> "nil", pos |-> p + 1, stk |-> <<raw.name>> \o s]
      [] raw.type = "EndElement" ->
           [t |-> raw, err |-> "nil", pos |-> p + 1,
            stk |-> IF s = <<>> THEN s ELSE Tail(s)]
      [] OTHER ->
           [t |-> raw, err |-> "nil", pos |-> p + 1, stk |-> s]

\* p.Token() as parse calls it
Token(inp, p, s) == StrictToken(inp, p, s)

\* t, err = p.Token()
NextToken ==
  LET r == Token(input, pos, stk) IN
    /\ t' = r.t
    /\ err' = r.err
    /\ pos' = r.pos
    /\ stk' = r.stk

NewDocument == [Root |-> 0, ProcInst |-> <<>>, Directives |-> <<>>]

NewNode(n, parent, as) ==
  [Name |-> n, Parent |-> parent, Attributes |-> as, Children |-> <<>>,
   Text |-> <<>>]

\* the other components at rest
ParserOff ==
  /\ input = <<>> /\ pos = 1 /\ stk = <<>> /\ t = NoToken /\ err = "nil"
  /\ nodes = <<>> /\ e = 0 /\ doc = NewDocument
  /\ ret = [doc |-> "none", err |-> "none"] /\ ppc = "off"
AggregateEmpty == Cn = <<>> /\ At = <<>> /\ atCalls = <<>> /\ elMx = {} /\ atMx = {}
NoLocals == [q |-> <<>>, attrs |-> <<>>, x |-> 0]
CallersOff ==
  /\ pc = [c \in Callers |-> "off"]
  /\ todo = [c \in Callers |-> <<>>]
  /\ loc = [c \in Callers |-> NoLocals]
  /\ files = <<>>
  /\ pending = {}
PipelineOff ==
  /\ held = [w \in Workers |-> 0]
  /\ ch = <<>>
  /\ closed = FALSE
  /\ skipped = {}
\* no earlier run of the printer
NoRun == [done |-> FALSE, out |-> <<>>]
PrinterOff == rootc = 0 /\ pstack = <<>> /\ out = <<>> /\ prev = NoRun
\* no attributeMap has been handed out; <<>> is no element's path
NoMapping == [ref |-> <<>>, seen |-> <<>>, wrote |-> FALSE]
GetOff == got = NoMapping

InitParse ==
  /\ AggregateEmpty
  /\ CallersOff
  /\ PipelineOff
  /\ PrinterOff
  /\ GetOff
  /\ input \in Inputs
  /\ pos = 1
  /\ stk = <<>>
  /\ t = NoToken
  /\ err = "nil"
  /\ nodes = <<>>
  /\ e = 0
  /\ doc = NewDocument
  /\ ret = [doc |-> "none", err |-> "none"]
  /\ ppc = "first"

\* lines 28-34: the first token; an error here is returned at once
ParseFirst ==
  /\ ppc = "first"
  /\ NextToken
  /\ IF err' # "nil"
     THEN /\ ret' = [doc |-> "nil", err |-> err']
          /\ ppc' = "done"
     ELSE /\ ret' = ret
          /\ ppc' = "loop"
  /\ UNCHANGED <<input, nodes, e, doc>>
  /\ ParseOnly

\* the loop exits when t is nil
InLoop(type) == ppc = "loop" /\ t # NoToken /\ t.type = type

\* lines 37-56, 71
ParseStartElement ==
  /\ InLoop("StartElement")
  /\ LET el == Len(nodes) + 1
         linked == IF e # 0
                   THEN [nodes EXCEPT ![e].Children = Append(@, el)]
                   ELSE nodes
     IN /\ nodes' = Append(linked, NewNode(t.name, e, t.attr))
        /\ e' = el
        /\ doc' = IF doc.Root = 0 THEN [doc EXCEPT !.Root = el] ELSE doc
  /\ NextToken
  /\ UNCHANGED <<input, ret, ppc>>
  /\ ParseOnly

\* lines 57-58, 71: e = e.Parent; a nil e is a nil-pointer dereference
ParseEndElement ==
  /\ InLoop("EndElement")
  /\ IF e = 0
     THEN /\ ret' = [doc |-> "none", err |-> "panic"]
          /\ ppc' = "done"
          /\ UNCHANGED <<e, t, err, pos, stk>>
     ELSE /\ e' = nodes[e].Parent
          /\ NextToken
          /\ UNCHANGED <<ret, ppc>>
  /\ UNCHANGED <<input, nodes, doc>>
  /\ ParseOnly

\* lines 59-63, 71
ParseCharData ==
  /\ InLoop("CharData")
  /\ nodes' = IF e # 0 THEN [nodes EXCEPT ![e].Text = TrimSpace(t.data)] ELSE nodes
  /\ NextToken
  /\ UNCHANGED <<input, e, doc, ret, ppc>>
  /\ ParseOnly

\* lines 64-65, 71
ParseProcInst ==
  /\ InLoop("ProcInst")
  /\ doc' = [doc EXCEPT !.ProcInst = stringifyProcInst(t)]
  /\ NextToken
  /\ UNCHANGED <<input, nodes, e, ret, ppc>>
  /\ ParseOnly

\* lines 66-67, 71
ParseDirective ==
  /\ InLoop("Directive")
  /\ doc' = [doc EXCEPT !.Directives = Append(@, stringifyDirective(t))]
  /\ NextToken
  /\ UNCHANGED <<input, nodes, e, ret, ppc>>
  /\ ParseOnly

\* if err != nil, as the check after the loop would commonly be written
StoppedOnNil(er) == er = "nil"

\* the check after the loop dropped: whatever stopped the reading passes
StoppedAnyhow(er) == TRUE

\* line 75: err != io.EOF, negated
StoppedOnEOF(er) == er = "EOF"

\* lines 74-80: reading must have stopped on EOF
ParseReturn ==
  /\ ppc = "loop"
  /\ t = NoToken
  /\ ret' = IF ~StoppedOnEOF(err) THEN [doc |-> "nil", err |-> err]
                                  ELSE [doc |-> "doc", err |-> "nil"]
  /\ ppc' = "done"
  /\ UNCHANGED <<input, pos, stk, t, err, nodes, e, doc>>
  /\ ParseOnly

NextParse ==
  \/ ParseFirst
  \/ ParseStartElement
  \/ ParseEndElement
  \/ ParseCharData
  \/ ParseProcInst
  \/ ParseDirective
  \/ ParseReturn

SpecParse == InitParse /\ [][NextParse]_vars

\* ======================================================================
\* Aggregate: the nested Elements maps, flattened by element path
\* ======================================================================

Front(q) == SubSeq(q, 1, Len(q) - 1)
Last(q) == q[Len(q)]
Min(S) == CHOOSE i \in S : \A j \in S : i <= j

\* elems.Get() of the Elements map owned by the element at path p (<<>> is
\* the root map): the paths of its entries
Entries(p) == {q \in DOMAIN Cn : Len(q) = Len(p) + 1 /\ Front(q) = p}

\* every children map taken for empty
ElLenZero(q) == 0

\* elem.El.Len()
ElLen(q) == Cardinality(Entries(q))

\* ======================================================================
\* Stats aggregator
\* ======================================================================

\* dom.Node: a name, the attribute names in order, the children in order
Node(n, as, cs) == [Name |-> n, Attributes |-> as, Children |-> cs]

\* the element trees of the corpus
Docs ==
  <<Node("a", <<"id">>, <<>>),
    Node("a", <<"id", "x">>, <<Node("b", <<>>, <<>>)>>),
    Node("a", <<>>, <<Node("b", <<"id">>, <<>>), Node("b", <<>>, <<>>)>>),
    Node("b", <<"id", "id">>, <<>>)>>

OkFile(tree) == [kind |-> "ok", tree |-> tree]

\* --- Elements.Add: insert-or-fetch, count, attributes, children

\* the entry's key in the flattened aggregate: the map's owner, then the name
EntryPath(call) == call.at \o <<call.node.Name>>

\* look the name up; if absent insert a zero-valued entry
InsertOrFetch(cn, q) == IF q \in DOMAIN cn THEN cn ELSE (q :> 0) @@ cn

\* the fresh entry's empty Attributes map (newAttributesWithLock)
newAttributesWithLock == <<>>
InsertAttributes(at, q) ==
  IF q \in DOMAIN at THEN at ELSE (q :> newAttributesWithLock) @@ at

\* increment the entry's count by 1
Increment(count) == count + 1

\* the recursive calls for the children, in order, on the entry's child map
ChildCalls(q, node) ==
  [i \in 1..Len(node.Children) |-> [at |-> q, node |-> node.Children[i]]]

\* where a goroutine goes when its Add(root) has returned
Home(c) == IF c = Main THEN "range" ELSE "idle"

\* after the attribute loop: the next pending call, or the return
AfterAttributes(c, calls) == IF calls = <<>> THEN Home(c) ELSE "el_lock"

\* a mutex that excludes nobody
NeverHeld(mx, p) == TRUE

\* sync.Mutex: Lock blocks while another goroutine holds the mutex
Free(mx, p) == \A h \in mx : h[1] # p

\* an Unlock that leaves the mutex held
NoUnlock(mx, p, c) == mx

\* line 31: defer a.mx.Unlock(), run when Add returns
Unlock(mx, p, c) == mx \ {<<p, c>>}

\* the exclusion mechanism of an Elements map, one per map instance
ElFree(mx, p) == \A h \in mx : h[1] # p

\* the map's exclusion is taken
ElLock(c) ==
  /\ pc[c] = "el_lock"
  /\ LET call == Head(todo[c]) IN
       /\ ElFree(elMx, call.at)
       /\ elMx' = elMx \cup {<<call.at, c>>}
  /\ pc' = [pc EXCEPT ![c] = "el_fetch"]
  /\ UNCHANGED <<Cn, At, atCalls, atMx, todo, loc, files, pending>>
  /\ AddOnly

\* insert-or-fetch: the entry is looked up, inserted zero-valued if absent,
\* and its count read
ElFetch(c) ==
  /\ pc[c] = "el_fetch"
  /\ LET q == EntryPath(Head(todo[c])) IN
       /\ Cn' = InsertOrFetch(Cn, q)
       /\ At' = InsertAttributes(At, q)
       /\ atCalls' = InsertAttributes(atCalls, q)
       /\ loc' = [loc EXCEPT ![c] = [q |-> q, attrs |-> <<>>, x |-> Cn'[q]]]
  /\ pc' = [pc EXCEPT ![c] = "el_count"]
  /\ UNCHANGED <<elMx, atMx, todo, files, pending>>
  /\ AddOnly

\* the count is raised by 1 and the exclusion released; the attributes come
\* next, the children after them
ElCount(c) ==
  /\ pc[c] = "el_count"
  /\ LET call == Head(todo[c])
         q == loc[c].q
         calls == ChildCalls(q, call.node) \o Tail(todo[c])
     IN /\ Cn' = [Cn EXCEPT ![q] = Increment(loc[c].x)]
        /\ elMx' = elMx \ {<<call.at, c>>}
        /\ todo' = [todo EXCEPT ![c] = calls]
        /\ loc' = [loc EXCEPT ![c] = IF call.node.Attributes # <<>>
                                     THEN [q |-> q, attrs |-> call.node.Attributes,
                                           x |-> 0]
                                     ELSE NoLocals]
        /\ pc' = [pc EXCEPT ![c] = IF call.node.Attributes # <<>>
                                   THEN "at_lock"
                                   ELSE AfterAttributes(c, calls)]
  /\ UNCHANGED <<At, atCalls, atMx, files, pending>>
  /\ AddOnly

\* --- attributesWithLock.Add

\* x++ dropped: every Add stores 1
CountOne(in, name) == 1

\* lines 33-39: x, exists := a.in[n.Name]; x++ if it exists, else x = 1
NewCount(in, name) == IF name \in DOMAIN in THEN in[name] + 1 ELSE 1

\* a.in = attributeMap{n.Name: x} when the name is new
StoreFresh(in, name, x) == IF name \in DOMAIN in THEN (name :> x) @@ in ELSE (name :> x)

\* the store also bumps every other name of the map
StoreBumpsAll(in, name, x) == (name :> x) @@ [m \in DOMAIN in |-> in[m] + 1]

\* line 41: a.in[n.Name] = x
Store(in, name, x) == (name :> x) @@ in

\* one more call Add(name) has returned
Returned(calls, name) ==
  (name :> IF name \in DOMAIN calls THEN calls[name] + 1 ELSE 1) @@ calls

\* line 30: a.mx.Lock()
AttrLock(c) ==
  /\ pc[c] = "at_lock"
  /\ Free(atMx, loc[c].q)
  /\ atMx' = atMx \cup {<<loc[c].q, c>>}
  /\ pc' = [pc EXCEPT ![c] = "at_read"]
  /\ UNCHANGED <<Cn, At, atCalls, elMx, todo, loc, files, pending>>
  /\ AddOnly

\* lines 33-39
AttrRead(c) ==
  /\ pc[c] = "at_read"
  /\ loc' = [loc EXCEPT ![c].x = NewCount(At[loc[c].q], Head(loc[c].attrs))]
  /\ pc' = [pc EXCEPT ![c] = "at_write"]
  /\ UNCHANGED <<Cn, At, atCalls, elMx, atMx, todo, files, pending>>
  /\ AddOnly

\* line 41, then the deferred a.mx.Unlock() of line 31
AttrWrite(c) ==
  /\ pc[c] = "at_write"
  /\ LET q == loc[c].q
         rest == Tail(loc[c].attrs)
         name == Head(loc[c].attrs)
     IN /\ At' = [At EXCEPT ![q] = Store(@, name, loc[c].x)]
        /\ atCalls' = [atCalls EXCEPT ![q] = Returned(@, name)]
        /\ atMx' = Unlock(atMx, q, c)
        /\ loc' = [loc EXCEPT ![c] = IF rest # <<>>
                                     THEN [q |-> q, attrs |-> rest, x |-> 0]
                                     ELSE NoLocals]
        /\ pc' = [pc EXCEPT ![c] = IF rest # <<>>
                                   THEN "at_lock"
                                   ELSE AfterAttributes(c, todo[c])]
  /\ UNCHANGED <<Cn, elMx, todo, files, pending>>
  /\ AddOnly

\* --- several goroutines merging a corpus with no external locking

\* an idle worker takes any document not yet merged and calls Add on the
\* root map
CallerTake(c) ==
  /\ pc[c] = "idle"
  /\ \E i \in pending :
       /\ pending' = pending \ {i}
       /\ todo' = [todo EXCEPT ![c] = <<[at |-> <<>>, node |-> files[i].tree]>>]
  /\ pc' = [pc EXCEPT ![c] = "el_lock"]
  /\ UNCHANGED <<Cn, At, atCalls, elMx, atMx, loc, files>>
  /\ AddOnly

\* the corpora: every multiset of NumDocs documents
Corpora ==
  {[i \in 1..NumDocs |-> OkFile(Docs[f[i]])] :
     f \in {g \in [1..NumDocs -> 1..Len(Docs)] :
              \A i \in 1..(NumDocs - 1) : g[i] <= g[i + 1]}}

InitAdd ==
  /\ ParserOff
  /\ PrinterOff
  /\ PipelineOff
  /\ GetOff
  /\ AggregateEmpty
  /\ files \in Corpora
  /\ pending = 1..NumDocs
  /\ pc = [c \in Callers |-> IF c \in Workers THEN "idle" ELSE "off"]
  /\ todo = [c \in Callers |-> <<>>]
  /\ loc = [c \in Callers |-> NoLocals]

NextAdd ==
  \/ \E c \in Workers : CallerTake(c)
  \/ \E c \in Workers : ElLock(c)
  \/ \E c \in Workers : ElFetch(c)
  \/ \E c \in Workers : ElCount(c)
  \/ \E c \in Workers : AttrLock(c)
  \/ \E c \in Workers : AttrRead(c)
  \/ \E c \in Workers : AttrWrite(c)

SpecAdd == InitAdd /\ [][NextAdd]_vars

\* the steps of one goroutine
AddStep(c) ==
  \/ CallerTake(c)
  \/ ElLock(c)
  \/ ElFetch(c)
  \/ ElCount(c)
  \/ AttrLock(c)
  \/ AttrRead(c)
  \/ AttrWrite(c)

\* the Go scheduler runs every goroutine that can take a step
FairnessAdd == \A c \in Workers : WF_vars(AddStep(c))

FairSpecAdd == SpecAdd /\ FairnessAdd

\* ----------------------------------------------------------------------
\* Aggregator claims
\* ----------------------------------------------------------------------

\* every document has been taken and every Add has returned
AllReturned == pending = {} /\ \A c \in Workers : pc[c] = "idle"

\* Attributes.Add run to completion for each name of attrs in turn
RECURSIVE AddAttributes(_, _)
AddAttributes(in, attrs) ==
  IF attrs = <<>> THEN in
  ELSE AddAttributes(Store(in, Head(attrs), NewCount(in, Head(attrs))), Tail(attrs))

\* Add run by one goroutine alone: each pending call in turn, to completion
RECURSIVE AddAlone(_, _)
AddAlone(agg, calls) ==
  IF calls = <<>> THEN agg
  ELSE LET call == Head(calls)
           q == EntryPath(call)
           cn == InsertOrFetch(agg.Cn, q)
       IN AddAlone(
            [Cn |-> [cn EXCEPT ![q] = Increment(@)],
             At |-> [InsertAttributes(agg.At, q) EXCEPT
                       ![q] = AddAttributes(@, call.node.Attributes)]],
            ChildCalls(q, call.node) \o Tail(calls))

\* the roots of the corpus passed to Add one after the other, in file order
InFileOrder ==
  AddAlone([Cn |-> <<>>, At |-> <<>>],
           [i \in 1..Len(files) |-> [at |-> <<>>, node |-> files[i].tree]])

\* C1: whatever the order in which the roots are passed to Add and however
\* the calls are spread over the workers and interleaved, the aggregate they
\* end in is the one that adding the documents in file order, one at a
\* time, ends in.
C1_OrderIndependent ==
  AllReturned => (Cn = InFileOrder.Cn /\ At = InFileOrder.At)

C1_Witness ==
  /\ AllReturned
  /\ files[1] # files[2]
  /\ \E q \in DOMAIN Cn : Cn[q] >= 2 /\ \E n \in DOMAIN At[q] : At[q][n] >= 2

\* the number of nodes at element path q in the tree, the tree's root being
\* an entry of the map owned by path p
RECURSIVE NodesAt(_, _, _)
RECURSIVE SumNodesAt(_, _, _)
SumNodesAt(q, p, cs) ==
  IF cs = <<>> THEN 0
  ELSE NodesAt(q, p, Head(cs)) + SumNodesAt(q, p, Tail(cs))
NodesAt(q, p, node) ==
  LET here == p \o <<node.Name>> IN
    IF here = q THEN 1
    ELSE IF Len(here) < Len(q) /\ SubSeq(q, 1, Len(here)) = here
         THEN SumNodesAt(q, here, node.Children)
         ELSE 0

\* the element paths at most as deep as the deepest document
AllPaths == UNION {[1..n -> Names] : n \in 1..3}

Trees == [i \in 1..Len(files) |-> files[i].tree]

\* C2: once all Add calls have returned, the count stored at every element
\* path is the number of nodes at that path over all merged trees, and a path
\* has an entry exactly when some tree has a node there.
C2_CountsAreNodeTotals ==
  AllReturned =>
    \A q \in AllPaths :
      LET total == SumNodesAt(q, <<>>, Trees) IN
        IF total = 0 THEN q \notin DOMAIN Cn
        ELSE q \in DOMAIN Cn /\ Cn[q] = total

\* a/b occurs once in each of exactly two of the documents; all Adds
\* have returned
C2_Witness ==
  /\ AllReturned
  /\ Cardinality({i \in 1..Len(files) :
                    NodesAt(<<"a", "b">>, <<>>, files[i].tree) = 1}) = 2
  /\ \A i \in 1..Len(files) : NodesAt(<<"a", "b">>, <<>>, files[i].tree) <= 1
  /\ Cn[<<"a", "b">>] = 2

\* C3: the count an Attributes map stores for a name is the number of Add
\* calls with that name that have returned on that map: the first stores 1,
\* each later one adds exactly 1, and no interleaving loses an update.
C3_AttributeCountIsCalls == At = atCalls

\* two goroutines are adding the same name to the same map: one is inside
\* Add with x = 2 computed, the other is blocked on the mutex
C3_Witness ==
  \E c, d \in Workers :
    /\ pc[c] = "at_write" /\ pc[d] = "at_lock"
    /\ loc[c].q = loc[d].q
    /\ Head(loc[c].attrs) = Head(loc[d].attrs)
    /\ loc[c].x = 2

\* the count of the element at path q in cn, and of attribute n of the
\* element at path q in at; 0 while there is no entry
ElementCount(cn, q) == IF q \in DOMAIN cn THEN cn[q] ELSE 0
AttributeCount(at, q, n) ==
  IF q \in DOMAIN at /\ n \in DOMAIN at[q] THEN at[q][n] ELSE 0

\* the counts a step has changed
ElementsTouched ==
  {q \in DOMAIN Cn' : ElementCount(Cn', q) # ElementCount(Cn, q)}
AttributesTouched ==
  {qn \in (DOMAIN At') \X AttrNames :
     AttributeCount(At', qn[1], qn[2]) # AttributeCount(At, qn[1], qn[2])}

\* C17: no step removes an entry or lowers a count; a step changes at most
\* one count, and it raises it by exactly 1; the step that completes an
\* element's update raises that element's count, and the step that completes
\* Attributes.Add raises the count of that name.
C17_CountsOnlyGrow ==
  [][/\ DOMAIN Cn \subseteq DOMAIN Cn'
     /\ DOMAIN At \subseteq DOMAIN At'
     /\ \A q \in DOMAIN At : DOMAIN At[q] \subseteq DOMAIN At'[q]
     /\ \A q \in DOMAIN At' : DOMAIN At'[q] \subseteq AttrNames
     /\ Cardinality(ElementsTouched) + Cardinality(AttributesTouched) <= 1
     /\ \A q \in ElementsTouched : Cn'[q] = ElementCount(Cn, q) + 1
     /\ \A qn \in AttributesTouched :
          At'[qn[1]][qn[2]] = AttributeCount(At, qn[1], qn[2]) + 1
     /\ \A c \in Workers :
          /\ (pc[c] = "el_count" /\ pc'[c] # "el_count")
               => ElementsTouched = {loc[c].q}
          /\ (pc[c] = "at_write" /\ pc'[c] # "at_write")
               => AttributesTouched = {<<loc[c].q, Head(loc[c].attrs)>>}
    ]_vars

\* three documents merged: an element and one of its attributes counted
\* three times
C17_Witness ==
  /\ AllReturned
  /\ \E q \in DOMAIN Cn : Cn[q] = 3 /\ \E n \in DOMAIN At[q] : At[q][n] = 3

\* how many of the attributes in as are named n
RECURSIVE Named(_, _)
Named(n, as) ==
  IF as = <<>> THEN 0
  ELSE (IF Head(as) = n THEN 1 ELSE 0) + Named(n, Tail(as))

\* the number of attributes named n on the nodes at element path q of the
\* tree, the tree's root being an entry of the map owned by path p
RECURSIVE AttrsAt(_, _, _, _)
RECURSIVE SumAttrsAt(_, _, _, _)
SumAttrsAt(n, q, p, cs) ==
  IF cs = <<>> THEN 0
  ELSE AttrsAt(n, q, p, Head(cs)) + SumAttrsAt(n, q, p, Tail(cs))
AttrsAt(n, q, p, node) ==
  LET here == p \o <<node.Name>> IN
    IF here = q THEN Named(n, node.Attributes)
    ELSE IF Len(here) < Len(q) /\ SubSeq(q, 1, Len(here)) = here
         THEN SumAttrsAt(n, q, here, node.Children)
         ELSE 0

\* C18: a call Add(n) on an Attributes map writes nothing before its store,
\* and its store changes the entry for n.Name of that map only: every other
\* name of the map, every other Attributes map and every element count stay
\* as they were.  So once all Adds have returned the count of a name under
\* an element is the number of times the name occurred on that element,
\* whatever other attributes those occurrences carry.
C18_AddChangesOneEntry ==
  /\ [][\A c \in Workers :
          /\ (pc[c] \in {"at_lock", "at_read"} /\ pc'[c] # pc[c])
               => UNCHANGED <<Cn, At>>
          /\ (pc[c] = "at_write" /\ pc'[c] # "at_write") =>
               LET q == loc[c].q
                   n == Head(loc[c].attrs)
               IN /\ Cn' = Cn
                  /\ DOMAIN At' = DOMAIN At
                  /\ \A r \in DOMAIN At : r # q => At'[r] = At[r]
                  /\ DOMAIN At'[q] = DOMAIN At[q] \cup {n}
                  /\ \A m \in DOMAIN At[q] : m # n => At'[q][m] = At[q][m]
                  /\ At'[q][n] = AttributeCount(At, q, n) + 1
      ]_vars
  /\ [](AllReturned =>
          \A q \in AllPaths : \A n \in AttrNames :
            AttributeCount(At, q, n) = SumAttrsAt(n, q, <<>>, Trees))

\* a occurred three times: with id alone, with id and x, and with no
\* attribute; id ends at 2 and x at 1
C18_Witness ==
  /\ AllReturned
  /\ <<"a">> \in DOMAIN Cn /\ Cn[<<"a">>] = 3
  /\ AttributeCount(At, <<"a">>, "id") = 2
  /\ AttributeCount(At, <<"a">>, "x") = 1

\* ======================================================================
\* Attributes: Add, Get and Len called on one map
\* ======================================================================

\* the element whose Attributes map the calls are made on
Owner == <<"a">>

\* lines 44-46: return a.in.  A Go map value refers to the map's storage, so
\* the attributeMap returned is the map Add writes to, not a copy of it; seen
\* records what it held when Get returned.
Get(q) == [ref |-> q, seen |-> At[q], wrote |-> FALSE]

\* what the attributeMap m holds now
Mapping(m) == At[m.ref]

\* lines 48-50: len(a.in)
AttrLen(q) == Cardinality(DOMAIN At[q])

\* line 29: a goroutine calls Add with an attribute named n
AttrCall(c) ==
  /\ pc[c] = "idle"
  /\ pending # {}
  /\ pending' = pending \ {Min(pending)}
  /\ \E n \in AttrNames :
       loc' = [loc EXCEPT ![c] = [q |-> Owner, attrs |-> <<n>>, x |-> 0]]
  /\ pc' = [pc EXCEPT ![c] = "at_lock"]
  /\ UNCHANGED <<Cn, At, atCalls, elMx, atMx, todo, files>>
  /\ AddOnly

\* m := a.Get(); Get takes no lock
CallerGet ==
  /\ got = NoMapping
  /\ got' = Get(Owner)
  /\ UNCHANGED <<parseVars, aggVars, callVars, pipeVars, printVars, histVars>>

\* m[n] = 0 by the caller of Get, at a moment when no Add is inside the map
MappingWrite ==
  /\ got.ref # <<>>
  /\ ~got.wrote
  /\ Free(atMx, got.ref)
  /\ \E n \in AttrNames : At' = [At EXCEPT ![got.ref] = Store(@, n, 0)]
  /\ got' = [got EXCEPT !.wrote = TRUE]
  /\ UNCHANGED <<parseVars, Cn, atCalls, elMx, atMx, callVars, pipeVars, printVars,
                 histVars>>

\* one entry, counted once, with the empty Attributes map it was created with
InitGet ==
  /\ ParserOff
  /\ PrinterOff
  /\ PipelineOff
  /\ GetOff
  /\ Cn = (Owner :> 1)
  /\ At = (Owner :> newAttributesWithLock)
  /\ atCalls = (Owner :> newAttributesWithLock)
  /\ elMx = {} /\ atMx = {}
  /\ files = <<>>
  /\ pending = 1..MaxAdds
  /\ pc = [c \in Callers |-> IF c \in Workers THEN "idle" ELSE "off"]
  /\ todo = [c \in Callers |-> <<>>]
  /\ loc = [c \in Callers |-> NoLocals]

NextGet ==
  \/ \E c \in Workers : AttrCall(c)
  \/ \E c \in Workers : AttrLock(c)
  \/ \E c \in Workers : AttrRead(c)
  \/ \E c \in Workers : AttrWrite(c)
  \/ CallerGet
  \/ MappingWrite

SpecGet == InitGet /\ [][NextGet]_vars

\* ----------------------------------------------------------------------
\* Attributes claims
\* ----------------------------------------------------------------------

\* C12: the mapping Get returned still holds what it held when Get returned,
\* whatever Add has done since; the aggregate holds what the Add calls put
\* there, whatever was done through a returned mapping; Len is the number of
\* distinct names added.
C12_GetIsSnapshot ==
  /\ (got.ref # <<>> /\ ~got.wrote) => Mapping(got) = got.seen
  /\ At = atCalls
  /\ \A q \in DOMAIN At : AttrLen(q) = Cardinality(DOMAIN atCalls[q])

\* ======================================================================
\* Printer
\* ======================================================================

\* elem.Cn <= c
OptionalLeq(cn, c) == cn <= c

\* line 16: elem.Cn < c
Optional(cn, c) == cn < c

\* Elements(elem.El, l+1, c): the caller's own parentCount handed down
InheritedCount(cn, c) == c

\* line 25: the third argument of the nested call, elem.Cn
NestedCount(cn, c) == cn

\* a call Elements(elems, l, c), elems being the map owned by path p; keys
\* are the entries the range loop has not visited yet
Frame(p, l, c) == [path |-> p, keys |-> Entries(p), l |-> l, c |-> c]

\* lines 11-30 for one entry of the range loop.  Go's map iteration order
\* is unspecified, so any entry not yet visited may come next.  A non-leaf
\* opens a block and enters the nested call; a leaf is closed at once.
PrintElement ==
  /\ pstack # <<>>
  /\ LET top == Head(pstack) IN
     \E q \in top.keys :
       LET leaf == ~(ElLen(q) > 0)
           rest == [top EXCEPT !.keys = @ \ {q}]
       IN /\ out' = Append(out, [ev |-> "elem", path |-> q, k |-> Last(q),
                                l |-> top.l, count |-> Cn[q],
                                optional |-> Optional(Cn[q], top.c),
                                attrs |-> At[q], leaf |-> leaf])
          /\ pstack' = IF leaf
                       THEN <<rest>> \o Tail(pstack)
                       ELSE <<Frame(q, top.l + 1, NestedCount(Cn[q], top.c)), rest>>
                            \o Tail(pstack)
  /\ UNCHANGED rootc
  /\ PrintOnly

\* the range loop is over: the call returns; the caller of a nested call
\* prints the closing tag of the element it was printing (line 27)
PrintReturn ==
  /\ pstack # <<>>
  /\ Head(pstack).keys = {}
  /\ LET top == Head(pstack) IN
       out' = IF Len(pstack) > 1
              THEN Append(out, [ev |-> "close", path |-> top.path,
                                k |-> Last(top.path), l |-> top.l - 1,
                                count |-> 0, optional |-> FALSE,
                                attrs |-> <<>>, leaf |-> FALSE])
              ELSE out
  /\ pstack' = Tail(pstack)
  /\ UNCHANGED rootc
  /\ PrintOnly

\* the element paths of the aggregates the printer is run on
PrintPaths == {<<"a">>, <<"b">>, <<"a", "a">>, <<"a", "b">>, <<"a", "b", "a">>}

\* a set of paths is a tree when every entry's parent is an entry too
PrefixClosed(D) == \A q \in D : Len(q) > 1 => Front(q) \in D

\* The aggregates Add can build: every entry was inserted by an Add that
\* counted it, so every count is at least 1, and so is every attribute count.
InitPrint ==
  /\ ParserOff
  /\ CallersOff
  /\ PipelineOff
  /\ GetOff
  /\ elMx = {} /\ atMx = {}
  /\ \E D \in SUBSET PrintPaths :
       /\ PrefixClosed(D)
       /\ Cn \in [D -> 1..MaxCount]
       /\ At = [q \in D |-> IF Len(q) = 1 THEN [n \in {"id"} |-> Cn[q]] ELSE <<>>]
  /\ atCalls = At
  /\ rootc \in 0..MaxCount
  /\ pstack = <<Frame(<<>>, 0, rootc)>>
  /\ out = <<>>
  /\ prev = NoRun

NextPrint ==
  \/ PrintElement
  \/ PrintReturn

SpecPrint == InitPrint /\ [][NextPrint]_vars

\* the outermost call has returned and Elements is called again on the same
\* aggregate with the same arguments; what the first run printed is kept
PrintAgain ==
  /\ pstack = <<>>
  /\ ~prev.done
  /\ prev' = [done |-> TRUE, out |-> out]
  /\ out' = <<>>
  /\ pstack' = <<Frame(<<>>, 0, rootc)>>
  /\ UNCHANGED <<rootc, parseVars, aggVars, callVars, pipeVars, getVars>>

NextPrintTwice ==
  \/ PrintElement
  \/ PrintReturn
  \/ PrintAgain

SpecPrintTwice == InitPrint /\ [][NextPrintTwice]_vars

\* ----------------------------------------------------------------------
\* Printer claims
\* ----------------------------------------------------------------------

\* the count of the element enclosing the entry at path q; for a top-level
\* entry, the parentCount given to the outermost call
EnclosingCount(q) == IF Len(q) = 1 THEN rootc ELSE Cn[Front(q)]

Printed(i) == i \in 1..Len(out) /\ out[i].ev = "elem"

\* C6: an element is printed optional exactly when its count is strictly
\* less than the count of the enclosing element (for a top-level element, the
\* parentCount of the outermost call); equal and greater counts are required.
C6_OptionalIffBelowParent ==
  \A i \in 1..Len(out) :
    Printed(i) =>
      /\ out[i].count = Cn[out[i].path]
      /\ out[i].optional <=> (Cn[out[i].path] < EnclosingCount(out[i].path))

\* a finished print that showed a nested optional element, a nested element
\* required with an equal count and one required with a greater count
C6_Witness ==
  /\ pstack = <<>>
  /\ \E i, j \in 1..Len(out) :
       /\ Printed(i) /\ Len(out[i].path) = 2 /\ out[i].optional
       /\ Printed(j) /\ Len(out[j].path) = 2 /\ ~out[j].optional
       /\ out[j].count = EnclosingCount(out[j].path)
  /\ \E i \in 1..Len(out) :
       /\ Printed(i) /\ Len(out[i].path) = 3 /\ ~out[i].optional
       /\ out[i].count > EnclosingCount(out[i].path)

\* where the element at path q was opened (or printed as a leaf), and where
\* its block was closed
Opens(q) == {i \in 1..Len(out) : out[i].ev = "elem" /\ out[i].path = q}
Closes(q) == {j \in 1..Len(out) : out[j].ev = "close" /\ out[j].path = q}

\* path r lies strictly below path q
Below(r, q) == Len(r) > Len(q) /\ SubSeq(r, 1, Len(q)) = q

\* C14: an element whose children map is empty is printed self-closing: no
\* deeper line follows it and no closing marker is ever printed for it.  An
\* element whose children map is not empty is printed as an opening marker;
\* what follows up to its closing marker is its own subtree, each of its
\* children printed once at depth + 1; the closing marker is at the
\* element's own depth, and once the printer is done every opened block has
\* been closed exactly once.
C14_LeafAndNesting ==
  /\ \A i \in 1..Len(out) :
       out[i].ev = "elem" =>
         LET q == out[i].path IN
           /\ Opens(q) = {i}
           /\ out[i].l = Len(q) - 1
           /\ out[i].leaf <=> (Entries(q) = {})
           /\ Entries(q) = {} =>
                /\ Closes(q) = {}
                /\ i < Len(out) => out[i + 1].l <= out[i].l
           /\ Entries(q) # {} =>
                /\ i < Len(out) =>
                     (out[i + 1].ev = "elem" /\ out[i + 1].path \in Entries(q))
                /\ Cardinality(Closes(q)) <= 1
                /\ pstack = <<>> => Closes(q) # {}
                /\ \A j \in Closes(q) :
                     /\ i < j
                     /\ out[j].l = out[i].l
                     /\ \A k \in (i + 1)..(j - 1) : Below(out[k].path, q)
                     /\ {out[k].path : k \in {m \in (i + 1)..(j - 1) :
                                               out[m].ev = "elem"
                                               /\ out[m].l = out[i].l + 1}}
                          = Entries(q)
  /\ \A j \in 1..Len(out) :
       out[j].ev = "close" => (Opens(out[j].path) # {} /\ out[j].k = Last(out[j].path))

\* the printer is done with an aggregate three levels deep: a block inside a
\* block, leaves at depths 0, 1 and 2
C14_Witness ==
  /\ pstack = <<>>
  /\ \A q \in PrintPaths : Opens(q) # {}
  /\ Closes(<<"a">>) # {} /\ Closes(<<"a", "b">>) # {}

\* both runs of the printer over the aggregate are over
BothRunsOver == prev.done /\ pstack = <<>>

\* C13: two runs of the printer over the same aggregate visit the entries of
\* every Elements map in the same order and print the same output.
C13_SameOutputEveryRun == BothRunsOver => out = prev.out

\* ======================================================================
\* File pipeline and its consumer (printXMLStats)
\* ======================================================================

\* a file that holds malformed XML: tree is what parse had built when the
\* decoder failed; a path that cannot be opened
CorruptFile(tree) == [kind |-> "corrupt", tree |-> tree]
MissingFile == [kind |-> "missing", tree |-> Node("", <<>>, <<>>)]

\* the files a corpus is made of; an ok file's tree is the element the
\* pipeline takes from its parsed document
FileUniverse ==
  {OkFile(Docs[1]), OkFile(Docs[3]), CorruptFile(Docs[2]), MissingFile}

\* parse.File with the err != io.EOF check dropped: what was built is
\* returned
FileKeepsPartial(f) ==
  CASE f.kind = "missing" -> [doc |-> "nil", root |-> f.tree, err |-> "open"]
    [] OTHER -> [doc |-> "doc", root |-> f.tree, err |-> "nil"]

\* parse.File: os.Open fails (lines 15-18), parse fails (lines 29-31,
\* 75-77), or the document is returned (line 80)
File(f) ==
  CASE f.kind = "missing" -> [doc |-> "nil", root |-> Node("", <<>>, <<>>), err |-> "open"]
    [] f.kind = "corrupt" -> [doc |-> "nil", root |-> Node("", <<>>, <<>>), err |-> "syntax"]
    [] OTHER -> [doc |-> "doc", root |-> f.tree, err |-> "nil"]

workerNum == Cardinality(Workers)

\* workerNum*(pipeSize+2)
OneMoreSlot == workerNum * (PipeSize + 2)

\* main.go:80: the capacity asked of ElementsOf, workerNum*(pipeSize+1)
BufferCapacity == workerNum * (PipeSize + 1)

\* a worker receives the next filename
WorkerRecv(w) ==
  /\ pc[w] = "recv"
  /\ pending # {}
  /\ held' = [held EXCEPT ![w] = Min(pending)]
  /\ pending' = pending \ {Min(pending)}
  /\ pc' = [pc EXCEPT ![w] = "parse"]
  /\ UNCHANGED <<todo, loc, files, ch, closed, skipped, printVars>>
  /\ PipeOnly

\* the filename source is closed and drained: the worker finishes
WorkerFinish(w) ==
  /\ pc[w] = "recv"
  /\ pending = {}
  /\ pc' = [pc EXCEPT ![w] = "done"]
  /\ UNCHANGED <<todo, loc, files, pending, pipeVars, printVars>>
  /\ PipeOnly

\* the worker parses its file; a failure is logged with the path and the
\* file skipped
WorkerParse(w) ==
  /\ pc[w] = "parse"
  /\ IF File(files[held[w]]).err # "nil"
     THEN /\ skipped' = skipped \cup {held[w]}
          /\ held' = [held EXCEPT ![w] = 0]
          /\ pc' = [pc EXCEPT ![w] = "recv"]
     ELSE /\ pc' = [pc EXCEPT ![w] = "send"]
          /\ UNCHANGED <<held, skipped>>
  /\ UNCHANGED <<todo, loc, files, pending, ch, closed, printVars>>
  /\ PipeOnly

\* the worker pushes the parsed root; it blocks while the channel is full.
\* A send on a closed channel panics.
WorkerSend(w) ==
  /\ pc[w] = "send"
  /\ closed \/ Len(ch) < BufferCapacity
  /\ IF closed
     THEN /\ pc' = [pc EXCEPT ![w] = "panic"]
          /\ UNCHANGED <<ch, held>>
     ELSE /\ ch' = Append(ch, File(files[held[w]]).root)
          /\ held' = [held EXCEPT ![w] = 0]
          /\ pc' = [pc EXCEPT ![w] = "recv"]
  /\ UNCHANGED <<todo, loc, files, pending, closed, skipped, printVars>>
  /\ PipeOnly

\* every worker has finished (and so all filenames have been consumed)
WorkersFinished == \A w \in Workers : pc[w] = "done"

\* the output channel is closed on completion
Close ==
  /\ ~closed
  /\ WorkersFinished
  /\ closed' = TRUE
  /\ UNCHANGED <<callVars, held, ch, skipped, printVars>>
  /\ PipeOnly

\* main.go:80-81: the range loop receives a root and calls elements.Add(e)
ConsumerRecv ==
  /\ pc[Main] = "range"
  /\ ch # <<>>
  /\ ch' = Tail(ch)
  /\ todo' = [todo EXCEPT ![Main] = <<[at |-> <<>>, node |-> Head(ch)]>>]
  /\ pc' = [pc EXCEPT ![Main] = "el_lock"]
  /\ UNCHANGED <<loc, files, pending, held, closed, skipped, printVars>>
  /\ PipeOnly

\* a loop that ends as soon as nothing is waiting in the channel
EndsWhenEmpty == ch = <<>>

\* for ... range over a channel ends when it is closed and drained
RangeEnds == ch = <<>> /\ closed

RECURSIVE SumCn(_)
SumCn(S) == IF S = {} THEN 0
            ELSE LET q == CHOOSE r \in S : TRUE IN Cn[q] + SumCn(S \ {q})

\* the roots merged: each Add of a root counts one entry of the root map
RootsProcessed == SumCn(Entries(<<>>))

\* main.go:82-83: the loop is over; stats.PrintXML prints the aggregate from
\* the root map, at depth 0, with the number of roots as parentCount
ConsumerPrint ==
  /\ pc[Main] = "range"
  /\ RangeEnds
  /\ pc' = [pc EXCEPT ![Main] = "print"]
  /\ rootc' = RootsProcessed
  /\ pstack' = <<Frame(<<>>, 0, RootsProcessed)>>
  /\ UNCHANGED <<todo, loc, files, pending, pipeVars, out>>
  /\ PipeOnly

InitPipe ==
  /\ ParserOff
  /\ PrinterOff
  /\ GetOff
  /\ AggregateEmpty
  /\ PipelineOff
  /\ files \in [1..NumFiles -> FileUniverse]
  /\ pending = 1..NumFiles
  /\ pc = [c \in Callers |-> IF c \in Workers THEN "recv" ELSE "range"]
  /\ todo = [c \in Callers |-> <<>>]
  /\ loc = [c \in Callers |-> NoLocals]

WorkerStep(w) ==
  \/ WorkerRecv(w)
  \/ WorkerFinish(w)
  \/ WorkerParse(w)
  \/ WorkerSend(w)

ConsumerStep ==
  \/ ConsumerRecv
  \/ ElLock(Main)
  \/ ElFetch(Main)
  \/ ElCount(Main)
  \/ AttrLock(Main)
  \/ AttrRead(Main)
  \/ AttrWrite(Main)
  \/ ConsumerPrint
  \/ PrintElement
  \/ PrintReturn

Next ==
  \/ \E w \in Workers : WorkerStep(w)
  \/ Close
  \/ ConsumerStep

Spec == InitPipe /\ [][Next]_vars

\* the Go scheduler runs every goroutine that can take a step
Fairness ==
  /\ \A w \in Workers : WF_vars(WorkerStep(w))
  /\ WF_vars(Close)
  /\ WF_vars(ConsumerStep)

FairSpec == Spec /\ Fairness

\* ----------------------------------------------------------------------
\* Pipeline claims
\* ----------------------------------------------------------------------

\* the consumer has left the range loop
LoopOver == pc[Main] = "print"

\* the files that open and parse
ValidFiles == {i \in 1..Len(files) : files[i].kind = "ok"}

\* the consumer is inside a call elements.Add
InAdd(c) ==
  pc[c] \in {"el_lock", "el_fetch", "el_count", "at_lock", "at_read", "at_write"}

\* C4: the output channel is closed only once all filenames are consumed and
\* every worker has finished, no worker sends on the closed channel, the
\* range loop ends only on the closed and drained channel with every parsed
\* root merged, and under fair scheduling the channel is eventually closed
\* and the loop then ends.
C4_PipelineCompletes ==
  /\ [](closed => (pending = {} /\ \A w \in Workers : pc[w] = "done"))
  /\ [](\A w \in Workers : pc[w] # "panic")
  /\ [](LoopOver =>
          (closed /\ ch = <<>> /\ RootsProcessed = Cardinality(ValidFiles)))
  /\ <>closed
  /\ (closed ~> LoopOver)

\* the loop has ended after the consumer merged two roots
C4_Witness == LoopOver /\ closed /\ RootsProcessed >= 2

\* the aggregate of a run over the valid files alone
ValidOnly ==
  LET valid == {i \in 1..Len(files) : files[i].kind = "ok"}
      ord == CHOOSE f \in [1..Cardinality(valid) -> valid] :
               \A i, j \in 1..Cardinality(valid) : i < j => f[i] < f[j]
  IN AddAlone([Cn |-> <<>>, At |-> <<>>],
              [i \in 1..Cardinality(valid) |->
                 [at |-> <<>>, node |-> files[ord[i]].tree]])

\* the run is over: the aggregate has been printed
RunOver == LoopOver /\ pstack = <<>>

\* C5: a file that fails to open or to parse is logged and skipped: no
\* worker stops on it, the run goes on until the aggregate is printed, and
\* the aggregate the loop ends with is the aggregate of the valid files.
C5_FailedFilesSkipped ==
  /\ RunOver \/ ENABLED Next
  /\ \A w \in Workers : pc[w] \in {"recv", "parse", "send", "done"}
  /\ LoopOver =>
       /\ Cn = ValidOnly.Cn /\ At = ValidOnly.At
       /\ skipped = (1..Len(files)) \ ValidFiles

\* a run that met a corrupt and a missing file and merged a valid one
C5_Witness ==
  /\ RunOver
  /\ \E i, j \in skipped : files[i].kind = "corrupt" /\ files[j].kind = "missing"
  /\ Cn # <<>>

\* C7: the aggregate is printed only after the output channel is closed and
\* drained, every worker has finished and the last Add has returned; from
\* then on no count changes.
C7_PrintAfterAggregation ==
  /\ [](LoopOver =>
          /\ closed /\ ch = <<>>
          /\ \A w \in Workers : pc[w] = "done"
          /\ \A c \in Callers : ~InAdd(c)
          /\ elMx = {} /\ atMx = {})
  /\ [][LoopOver => (LoopOver' /\ UNCHANGED <<Cn, At>>)]_vars

\* the printer is at work on an aggregate of two merged roots
C7_Witness == LoopOver /\ out # <<>> /\ pstack # <<>> /\ RootsProcessed >= 2

\* parsed trees produced by a worker and not yet taken by the consumer:
\* those in the channel and those a worker is waiting to send
InFlight == Len(ch) + Cardinality({w \in Workers : pc[w] = "send"})

ParseDone == ppc = "done"
ReturnedDocument == ret.doc = "doc" /\ ret.err = "nil"

\* the input is well formed and holds no element: only character data,
\* processing instructions and directives
ZeroElements(inp) ==
  \A i \in 1..Len(inp) : inp[i].type \in {"CharData", "ProcInst", "Directive"}

\* C9: every well-formed input with zero elements, the input with no tokens
\* at all included, parses to a Document with a null root and no error.
C9_ZeroElementsDocument ==
  (ParseDone /\ ZeroElements(input)) => (ReturnedDocument /\ doc.Root = 0)

\* the token at hand is an end tag (refused by the decoder, or delivered as t)
\* and no node is open
EndTagNoOpenNode ==
  /\ e = 0
  /\ \/ pos <= Len(input) /\ input[pos].type = "EndElement"
     \/ t.type = "EndElement"

\* C10: an end tag met while no node is open makes parse fail with an error
\* value: it does not crash and it returns no Document.
C10_EndTagNoOpenNodeFails ==
  /\ ret.err # "panic"
  /\ (ParseDone /\ EndTagNoOpenNode) => ret = [doc |-> "nil", err |-> "syntax"]

C10_Witness ==
  ParseDone /\ EndTagNoOpenNode /\ nodes # <<>> /\ ret.err = "syntax"

\* the decoder has read the whole input
AtEndOfInput == pos > Len(input)

\* parse returned an error value and no Document
ReturnedError == ret.doc = "nil" /\ ret.err \in {"syntax", "EOF"}

\* C11: parse returns a Document only when reading stopped on io.EOF, at the
\* end of the input, with no node open; when reading stopped on anything
\* else, or a node is still open at the end of the input, it returns an error
\* and no Document.
C11_DocumentOnlyOnCleanEOF ==
  ParseDone =>
    /\ ReturnedDocument \/ ReturnedError
    /\ ReturnedDocument => (err = "EOF" /\ AtEndOfInput /\ e = 0 /\ stk = <<>>)
    /\ err # "EOF" => ReturnedError
    /\ (AtEndOfInput /\ e # 0) => ReturnedError

\* the input ended inside an element whose child had been closed: a node is
\* still open at the end of the input and parse returned the error
C11_Witness ==
  /\ ParseDone /\ AtEndOfInput /\ e # 0
  /\ Len(nodes) = 2 /\ nodes[e].Children # <<>>
  /\ ReturnedError

\* C15: on every start-tag token a new node is created with the token's name
\* and attributes; if a node is open the new node is appended as that node's
\* last child, and if no node is open the new node becomes the document
\* root; either way the new node becomes the current node.
C15_StartTagStep ==
  [][InLoop("StartElement") =>
       LET el == Len(nodes) + 1 IN
         /\ Len(nodes') = el
         /\ nodes'[el].Name = t.name
         /\ nodes'[el].Attributes = t.attr
         /\ nodes'[el].Parent = e
         /\ e # 0 => nodes'[e].Children = Append(nodes[e].Children, el)
         /\ e = 0 => doc'.Root = el
         /\ e' = el]_vars

\* the nodes reachable from node n by following Children
RECURSIVE Descendants(_, _)
Descendants(n, fuel) ==
  IF fuel = 0 THEN {n}
  ELSE {n} \cup UNION {Descendants(nodes[n].Children[i], fuel - 1) :
                         i \in 1..Len(nodes[n].Children)}

\* the number of times node n occurs in the children list of node m
Occurrences(n, m) ==
  Cardinality({i \in 1..Len(nodes[m].Children) : nodes[m].Children[i] = n})

\* following Parent from node n reaches nil within as many steps as there
\* are nodes
RECURSIVE ReachesNil(_, _)
ReachesNil(n, fuel) ==
  IF n = 0 THEN TRUE
  ELSE IF fuel = 0 THEN FALSE
  ELSE ReachesNil(nodes[n].Parent, fuel - 1)

\* C16: every node the parser has created, other than the document root, has
\* a parent, occurs exactly once in that parent's children and in no other
\* node's children, and is reachable from the root; the root has no parent
\* and following parents never loops.
C16_NodesFormOneTree ==
  \A n \in 1..Len(nodes) :
    /\ ReachesNil(n, Len(nodes))
    /\ IF n = doc.Root
       THEN /\ nodes[n].Parent = 0
            /\ \A m \in 1..Len(nodes) : Occurrences(n, m) = 0
       ELSE /\ nodes[n].Parent # 0
            /\ Occurrences(n, nodes[n].Parent) = 1
            /\ \A m \in 1..Len(nodes) : m # nodes[n].Parent => Occurrences(n, m) = 0
            /\ doc.Root # 0
            /\ n \in Descendants(doc.Root, Len(nodes))

\* ----------------------------------------------------------------------
\* Lock discipline
\* ----------------------------------------------------------------------

\* the locks goroutine c holds: of Elements maps, of Attributes maps
ElHeldBy(c) == {h \in elMx : h[2] = c}
AtHeldBy(c) == {h \in atMx : h[2] = c}

\* no two goroutines hold the lock of the same map
OneHolder(mx) == \A g, h \in mx : g[1] = h[1] => g = h

\* C19: every map has its own lock and a lock has one holder at a time; a
\* goroutine holds a lock only from the Lock to the end of one
\* insert-or-update, on the map being updated, and holds none once the
\* update has returned, nor while it is between Adds taking its next file; so
\* it never holds two locks, concurrent Adds never deadlock, and under fair
\* scheduling every Add returns.
C19_LockDiscipline ==
  /\ [](OneHolder(elMx) /\ OneHolder(atMx))
  /\ [](\A c \in Workers :
          /\ Cardinality(ElHeldBy(c)) + Cardinality(AtHeldBy(c)) <= 1
          /\ ElHeldBy(c) # {} <=> pc[c] \in {"el_fetch", "el_count"}
          /\ ElHeldBy(c) # {} => ElHeldBy(c) = {<<Head(todo[c]).at, c>>}
          /\ AtHeldBy(c) # {} <=> pc[c] \in {"at_read", "at_write"}
          /\ AtHeldBy(c) # {} => AtHeldBy(c) = {<<loc[c].q, c>>}
          /\ pc[c] = "idle" => (ElHeldBy(c) = {} /\ AtHeldBy(c) = {}))
  /\ [](AllReturned \/ ENABLED NextAdd)
  /\ \A c \in Workers : (InAdd(c) ~> pc[c] = "idle")
  /\ <>[](AllReturned /\ elMx = {} /\ atMx = {})

\* two goroutines inside Add at once, each holding the lock of a different
\* map: one the root map's, the other a nested map's
C19_Witness ==
  \E c, d \in Workers :
    /\ c # d
    /\ <<<<>>, c>> \in elMx
    /\ \E h \in elMx \cup atMx : h[2] = d /\ h[1] # <<>>

====
